---- MODULE Spec2Model ----
(***************************************************************************)
(* Model of analyzer/static/analyzer/js/script.js: the upload page of the  *)
(* audio stress analyzer.  The state is the closure variable currentFile,  *)
(* the properties of the DOM elements the script writes, and the promise   *)
(* chain of every fetch the analyze button has issued.                     *)
(*                                                                         *)
(* Numbers: a score is held in hundredths (0.75 is 75) and a feature       *)
(* contribution in thousandths (0.4 is 400), so that the comparisons and   *)
(* the toFixed roundings of the script are exact integer operations.       *)
(***************************************************************************)
EXTENDS Integers, Sequences, FiniteSets, TLC

(***************************************************************************)
(* Bounds of the model.                                                    *)
(***************************************************************************)
\* Number of fetch calls that may be outstanding at once.
MaxOutstanding == 2
\* Number of fetch calls that may be outstanding at once under SubmitSpec.
MaxSubmitOutstanding == 1
\* Largest score, in hundredths, handed to updateResults by RenderSpec.
MaxScore == 100

(***************************************************************************)
(* Values.                                                                 *)
(***************************************************************************)
\* JavaScript null / undefined, and a present value: an optional value is a
\* sequence of length 0 or 1.
Null == <<>>
Some(x) == <<x>>

\* File objects: display name and declared media type.
AudioFiles ==
    { [name |-> "a.mp3", type |-> "audio/mpeg"],
      [name |-> "b.wav", type |-> "audio/wav"] }
OtherFiles ==
    { [name |-> "notes.txt", type |-> "text/plain"],
      [name |-> "clip", type |-> ""],
      [name |-> "v.mp4", type |-> "video/audio/"] }
Files == AudioFiles \cup OtherFiles

\* e.target.files / e.dataTransfer.files: empty, or the files carried.
FileLists == {<<>>} \cup { <<f>> : f \in Files }

\* String.prototype.startsWith
StartsWith(s, prefix) ==
    /\ Len(s) >= Len(prefix)
    /\ SubSeq(s, 1, Len(prefix)) = prefix

\* Inline style of the drop zone: initial (unset), highlighted, normal.
StyleUnset == [background |-> "", borderColor |-> ""]
StyleHighlight == [background |-> "#e3f2fd", borderColor |-> "#2196f3"]
StyleNormal == [background |-> "#f8f9fa", borderColor |-> "#3498db"]

\* The analyze button of the host page carries the disabled attribute until
\* a file is selected (the page markup is not part of the script).
InitAnalyzeDisabled == TRUE

VARIABLES
    currentFile,          \* let currentFile: Null or Some(file)
    selectedFileText,     \* selectedFile.textContent
    analyzeDisabled,      \* analyzeBtn.disabled
    loadingDisplay,       \* loading.style.display
    resultDisplay,        \* resultContainer.style.display
    dropZoneStyle,        \* dropZone.style.background / borderColor
    scoreValueText,       \* scoreValue.textContent
    scoreFillWidth,       \* scoreFill.style.width
    interpretationText,   \* scoreInterpretation.textContent
    featureRows,          \* children of featuresContainer, in order
    animations,           \* whether a setTimeout callback of updateResults is pending
    requests,             \* the promise chains not yet run to their end, in order of issue
    alertMsg,             \* message of the alert the last step raised, "" if none
    lastRender,           \* arguments of the last call Render made (RenderSpec)
    lastSubmit            \* currentFile as the last call Submit made found it (SubmitSpec)

selectionVars == <<currentFile, selectedFileText, analyzeDisabled>>
busyVars == <<loadingDisplay, resultDisplay>>
resultVars == <<scoreValueText, scoreFillWidth, interpretationText, featureRows>>
vars == <<currentFile, selectedFileText, analyzeDisabled, loadingDisplay,
          resultDisplay, dropZoneStyle, scoreValueText, scoreFillWidth,
          interpretationText, featureRows, animations, requests, alertMsg,
          lastRender, lastSubmit>>

(***************************************************************************)
(* Response bodies: what response.json() can resolve to.                   *)
(***************************************************************************)
\* Feature mappings in Object.entries order: <<key, contribution>> pairs,
\* the contribution in thousandths.
FeatureMaps ==
    { << <<"pitch_variance", 400>> >>,
      << <<"energy", 255>>, <<"speech_rate", 1000>> >> }

Body(success, score, features, errors, error) ==
    [null |-> FALSE, success |-> success, score |-> score,
     features |-> features, errors |-> errors, error |-> error]
\* The JSON text "null": data.success throws a TypeError.
JsonNull ==
    [null |-> TRUE, success |-> FALSE, score |-> Null,
     features |-> Null, errors |-> Null, error |-> Null]
SuccessBodies ==
    { Body(TRUE, Some(29), Some(<< <<"pitch_variance", 400>> >>), Null, Null),
      Body(TRUE, Some(75),
           Some(<< <<"energy", 255>>, <<"speech_rate", 1000>> >>), Null, Null) }
\* success true with the score, or the features, missing.
BrokenBodies ==
    { Body(TRUE, Null, Null, Null, Null),
      Body(TRUE, Some(60), Null, Null, Null) }
FailureBodies ==
    { Body(FALSE, Null, Null, Null, Some("bad file")),
      Body(FALSE, Null, Null, Some("invalid format"), Some("bad file")),
      Body(FALSE, Null, Null, Some(""), Some("bad file")),
      Body(FALSE, Null, Null, Null, Null) }
ResponseBodies ==
    SuccessBodies \cup BrokenBodies \cup FailureBodies \cup {JsonNull}

(***************************************************************************)
(* Result Renderer: the pure parts of updateResults.                       *)
(***************************************************************************)
\* score.toFixed(2), score in hundredths
ToFixed2(s) ==
    ToString(s \div 100) \o "." \o
    (IF s % 100 < 10 THEN "0" ELSE "") \o ToString(s % 100)

\* `${score * 100}%`
FillWidth(s) == ToString(s) \o "%"

\* (contribution * 100).toFixed(1) + "%", contribution in thousandths
ToFixed1Percent(c) == ToString(c \div 10) \o "." \o ToString(c % 10) \o "%"

\* `${contribution * 100}%`
BarWidth(c) ==
    ToString(c \div 10) \o
    (IF c % 10 = 0 THEN "" ELSE "." \o ToString(c % 10)) \o "%"

\* Interpretation with the lower threshold compared by <=.
InterpretationInclusive(s) ==
    IF s <= 30 THEN "Low Stress"
    ELSE IF s < 60 THEN "Moderate Stress"
    ELSE "High Stress"

\* the three tiers of the score
Interpretation(s) ==
    IF s < 30 THEN "Low Stress"
    ELSE IF s < 60 THEN "Moderate Stress"
    ELSE "High Stress"

LowerCase == "abcdefghijklmnopqrstuvwxyz"
UpperCase == "ABCDEFGHIJKLMNOPQRSTUVWXYZ"
Digits == "0123456789"
Char(s, i) == SubSeq(s, i, i)
Contains(s, c) == \E i \in 1..Len(s) : Char(s, i) = c
\* l.toUpperCase() of one character
ToUpperCase(c) ==
    IF Contains(LowerCase, c)
    THEN Char(UpperCase, CHOOSE i \in 1..Len(LowerCase) : Char(LowerCase, i) = c)
    ELSE c
\* \w of a regular expression
IsWordChar(c) ==
    Contains(LowerCase, c) \/ Contains(UpperCase, c) \/ Contains(Digits, c) \/ c = "_"

\* feature.replace(/_/g, ' ')
RECURSIVE ReplaceUnderscores(_)
ReplaceUnderscores(s) ==
    IF s = "" THEN ""
    ELSE (IF Char(s, 1) = "_" THEN " " ELSE Char(s, 1)) \o
         ReplaceUnderscores(SubSeq(s, 2, Len(s)))

\* .replace(/\b\w/g, l => l.toUpperCase()): a word character that follows
\* the start of the string or a non-word character is upper-cased.
RECURSIVE CapitalizeFrom(_, _)
CapitalizeFrom(s, i) ==
    IF i > Len(s) THEN ""
    ELSE (IF IsWordChar(Char(s, i)) /\ (i = 1 \/ ~IsWordChar(Char(s, i - 1)))
          THEN ToUpperCase(Char(s, i))
          ELSE Char(s, i)) \o CapitalizeFrom(s, i + 1)

DisplayName(feature) == CapitalizeFrom(ReplaceUnderscores(feature), 1)

\* The feature keys of the responses, and the display name of each.
FeatureKeys == {"pitch_variance", "energy", "speech_rate"}
DisplayNames == [feature \in FeatureKeys |-> DisplayName(feature)]

\* The element one iteration of the loop appends.
FeatureEl(entry) ==
    [name |-> DisplayNames[entry[1]],
     percent |-> ToFixed1Percent(entry[2]),
     width |-> BarWidth(entry[2])]

\* for (const [feature, contribution] of Object.entries(features))
RECURSIVE AppendFeatures(_, _)
AppendFeatures(rows, entries) ==
    IF entries = <<>> THEN rows
    ELSE AppendFeatures(Append(rows, FeatureEl(Head(entries))), Tail(entries))

\* updateResults without featuresContainer.innerHTML = '': the rows are
\* appended to those of the render before.
updateResultsAppending(score, features) ==
    IF score = Null \/ features = Null
    THEN [threw |-> TRUE,
          scoreValueText |-> scoreValueText,
          scoreFillWidth |-> scoreFillWidth,
          interpretationText |-> interpretationText,
          featureRows |-> featureRows,
          resultDisplay |-> resultDisplay,
          animations |-> animations]
    ELSE [threw |-> FALSE,
          scoreValueText |-> ToFixed2(score[1]),
          scoreFillWidth |-> FillWidth(score[1]),
          interpretationText |-> Interpretation(score[1]),
          featureRows |-> AppendFeatures(featureRows, features[1]),
          resultDisplay |-> "block",
          animations |-> TRUE]

\* updateResults(score, features), run on the present display.  The result
\* is the display it leaves and whether it threw: score.toFixed throws when
\* the score is missing (nothing is written yet), Object.entries throws when
\* the features are missing (the score, the gauge and the label are written
\* and the rows cleared, the region is not shown, no timer is set).
updateResults(score, features) ==
    IF score = Null
    THEN [threw |-> TRUE,
          scoreValueText |-> scoreValueText,
          scoreFillWidth |-> scoreFillWidth,
          interpretationText |-> interpretationText,
          featureRows |-> featureRows,
          resultDisplay |-> resultDisplay,
          animations |-> animations]
    ELSE IF features = Null
    THEN [threw |-> TRUE,
          scoreValueText |-> ToFixed2(score[1]),
          scoreFillWidth |-> FillWidth(score[1]),
          interpretationText |-> Interpretation(score[1]),
          featureRows |-> <<>>,
          resultDisplay |-> resultDisplay,
          animations |-> animations]
    ELSE [threw |-> FALSE,
          scoreValueText |-> ToFixed2(score[1]),
          scoreFillWidth |-> FillWidth(score[1]),
          interpretationText |-> Interpretation(score[1]),
          featureRows |-> AppendFeatures(<<>>, features[1]),
          resultDisplay |-> "block",
          animations |-> TRUE]

\* The state a call of updateResults leaves.
Rendered(score, features) ==
    LET out == updateResults(score, features) IN
    /\ scoreValueText' = out.scoreValueText
    /\ scoreFillWidth' = out.scoreFillWidth
    /\ interpretationText' = out.interpretationText
    /\ featureRows' = out.featureRows
    /\ resultDisplay' = out.resultDisplay
    /\ animations' = out.animations

(***************************************************************************)
(* Initial state: the DOMContentLoaded callback has run.                   *)
(***************************************************************************)
Init ==
    /\ currentFile = Null
    /\ selectedFileText = ""
    /\ analyzeDisabled = InitAnalyzeDisabled
    /\ loadingDisplay = ""
    /\ resultDisplay = ""
    /\ dropZoneStyle = StyleUnset
    /\ scoreValueText = ""
    /\ scoreFillWidth = ""
    /\ interpretationText = ""
    /\ featureRows = <<>>
    /\ animations = FALSE
    /\ requests = <<>>
    /\ alertMsg = ""
    /\ lastRender = Null
    /\ lastSubmit = Null

(***************************************************************************)
(* The event loop.  A promise reaction (then, catch, finally callback) is  *)
(* a microtask: once a chain has a reaction queued, no event handler and   *)
(* no other task runs until the chain has run to its end.                  *)
(***************************************************************************)
Reactions == {"then", "catch", "finally"}
Outstanding == 1..Len(requests)
InFlight == { r \in 1..Len(requests) : requests[r].pc \in {"fetching", "parsing"} }
MicrotasksPending == \E r \in 1..Len(requests) : requests[r].pc \in Reactions

(***************************************************************************)
(* Selection Manager.                                                      *)
(***************************************************************************)
\* handleFileSelection storing the file before it looks at its type.
handleFileSelectionStoresFirst(file) ==
    /\ currentFile' = Some(file)
    /\ selectedFileText' = "Selected file: " \o file.name
    /\ IF ~StartsWith(file.type, "audio/")
       THEN alertMsg' = "Please upload an audio file" /\ UNCHANGED analyzeDisabled
       ELSE alertMsg' = "" /\ analyzeDisabled' = FALSE

\* handleFileSelection leaving the label of the file selected before.
handleFileSelectionKeepsLabel(file) ==
    IF ~StartsWith(file.type, "audio/")
    THEN /\ alertMsg' = "Please upload an audio file"
         /\ UNCHANGED selectionVars
    ELSE /\ currentFile' = Some(file)
         /\ selectedFileText' =
              (IF currentFile = Null
               THEN "Selected file: " \o file.name
               ELSE selectedFileText)
         /\ analyzeDisabled' = FALSE
         /\ alertMsg' = ""

\* handleFileSelection enabling the button before it looks at the type.
handleFileSelectionEnablesFirst(file) ==
    /\ analyzeDisabled' = FALSE
    /\ IF ~StartsWith(file.type, "audio/")
       THEN /\ alertMsg' = "Please upload an audio file"
            /\ UNCHANGED <<currentFile, selectedFileText>>
       ELSE /\ currentFile' = Some(file)
            /\ selectedFileText' = "Selected file: " \o file.name
            /\ alertMsg' = ""

\* A handleFileSelection that forgets the held file when it refuses one.
handleFileSelectionForgets(file) ==
    IF ~StartsWith(file.type, "audio/")
    THEN /\ alertMsg' = "Please upload an audio file"
         /\ currentFile' = Null
         /\ UNCHANGED <<selectedFileText, analyzeDisabled>>
    ELSE /\ currentFile' = Some(file)
         /\ selectedFileText' = "Selected file: " \o file.name
         /\ analyzeDisabled' = FALSE
         /\ alertMsg' = ""

handleFileSelection(file) ==
    IF ~StartsWith(file.type, "audio/")
    THEN /\ alertMsg' = "Please upload an audio file"
         /\ UNCHANGED selectionVars
    ELSE /\ currentFile' = Some(file)
         /\ selectedFileText' = "Selected file: " \o file.name
         /\ analyzeDisabled' = FALSE
         /\ alertMsg' = ""

\* browseBtn click: opens the file picker.
BrowseClick ==
    /\ ~MicrotasksPending
    /\ alertMsg' = ""
    /\ UNCHANGED <<selectionVars, busyVars, dropZoneStyle, resultVars,
                   animations, requests, lastRender, lastSubmit>>

\* fileInput change
FileInputChange(files) ==
    /\ ~MicrotasksPending
    /\ IF Len(files) > 0
       THEN handleFileSelection(files[1])
       ELSE alertMsg' = "" /\ UNCHANGED selectionVars
    /\ UNCHANGED <<busyVars, dropZoneStyle, resultVars, animations, requests,
                   lastRender, lastSubmit>>

\* dropZone dragover
DragOver ==
    /\ ~MicrotasksPending
    /\ dropZoneStyle' = StyleHighlight
    /\ alertMsg' = ""
    /\ UNCHANGED <<selectionVars, busyVars, resultVars, animations, requests,
                   lastRender, lastSubmit>>

\* A dragleave handler that also drops the selection.
DragLeaveClearsSelection ==
    /\ ~MicrotasksPending
    /\ dropZoneStyle' = StyleNormal
    /\ currentFile' = Null
    /\ selectedFileText' = ""
    /\ analyzeDisabled' = TRUE
    /\ alertMsg' = ""
    /\ UNCHANGED <<busyVars, resultVars, animations, requests,
                   lastRender, lastSubmit>>

\* dropZone dragleave
DragLeave ==
    /\ ~MicrotasksPending
    /\ dropZoneStyle' = StyleNormal
    /\ alertMsg' = ""
    /\ UNCHANGED <<selectionVars, busyVars, resultVars, animations, requests,
                   lastRender, lastSubmit>>

\* A drop handler that stores the dropped file without handleFileSelection.
DropUnchecked(files) ==
    /\ ~MicrotasksPending
    /\ dropZoneStyle' = StyleNormal
    /\ IF Len(files) > 0
       THEN /\ currentFile' = Some(files[1])
            /\ selectedFileText' = "Selected file: " \o files[1].name
            /\ analyzeDisabled' = FALSE
            /\ alertMsg' = ""
       ELSE alertMsg' = "" /\ UNCHANGED selectionVars
    /\ UNCHANGED <<busyVars, resultVars, animations, requests, lastRender, lastSubmit>>

\* dropZone drop
Drop(files) ==
    /\ ~MicrotasksPending
    /\ dropZoneStyle' = StyleNormal
    /\ IF Len(files) > 0
       THEN handleFileSelection(files[1])
       ELSE alertMsg' = "" /\ UNCHANGED selectionVars
    /\ UNCHANGED <<busyVars, resultVars, animations, requests, lastRender, lastSubmit>>

(***************************************************************************)
(* Submission Controller.                                                  *)
(***************************************************************************)
\* The promise chain of one fetch: the file sent, where the chain stands
\* (pc), the parsed body handed to the second then-callback (data), how the
\* exchange came out (outcome), whether the chain has raised an alert
\* (notified), whether the result region was shown when the analyze
\* button was clicked (shown), and whether the response of a request issued
\* after this one has been rendered already (overtaken, recorded under
\* OrderSpec only).
NewRequest(file) ==
    [file |-> file, pc |-> "fetching", data |-> Null, outcome |-> "pending",
     notified |-> FALSE, shown |-> (resultDisplay = "block"),
     overtaken |-> FALSE]

\* A disabled button dispatches no click event.
ClickDispatched == ~analyzeDisabled

\* The click listener without its guard on currentFile.
analyzeBtnClickUnguarded ==
    /\ loadingDisplay' = "block"
    /\ resultDisplay' = "none"
    /\ analyzeDisabled' = TRUE
    /\ requests' = Append(requests,
                          NewRequest(IF currentFile = Null THEN Null
                                     ELSE currentFile[1]))
    /\ alertMsg' = ""
    /\ UNCHANGED <<currentFile, selectedFileText, dropZoneStyle, resultVars,
                   animations, lastRender>>

\* The click listener of analyzeBtn.
analyzeBtnClick ==
    /\ IF currentFile = Null
       THEN UNCHANGED <<busyVars, analyzeDisabled, requests>>
       ELSE /\ loadingDisplay' = "block"
            /\ resultDisplay' = "none"
            /\ analyzeDisabled' = TRUE
            /\ requests' = Append(requests, NewRequest(currentFile[1]))
    /\ alertMsg' = ""
    /\ UNCHANGED <<currentFile, selectedFileText, dropZoneStyle, resultVars,
                   animations, lastRender>>

\* analyzeBtn click
AnalyzeClick ==
    /\ ~MicrotasksPending
    /\ ClickDispatched
    /\ Len(requests) < MaxOutstanding
    /\ analyzeBtnClick
    /\ UNCHANGED lastSubmit

\* What one step of the chain of request r leaves alone.
ChainFrame ==
    /\ UNCHANGED <<currentFile, selectedFileText, dropZoneStyle>>

\* fetch resolves with a response: response => response.json() runs.
FetchResolve(r) ==
    /\ ~MicrotasksPending
    /\ requests[r].pc = "fetching"
    /\ requests' = [requests EXCEPT ![r].pc = "parsing"]
    /\ alertMsg' = ""
    /\ ChainFrame
    /\ UNCHANGED <<analyzeDisabled, busyVars, resultVars, animations, lastRender, lastSubmit>>

\* fetch rejects (network failure): both then-callbacks are skipped.
FetchReject(r) ==
    /\ ~MicrotasksPending
    /\ requests[r].pc = "fetching"
    /\ requests' = [requests EXCEPT ![r].pc = "catch", ![r].outcome = "network"]
    /\ alertMsg' = ""
    /\ ChainFrame
    /\ UNCHANGED <<analyzeDisabled, busyVars, resultVars, animations, lastRender, lastSubmit>>

\* response.json() resolves with the parsed body.
JsonResolve(r, body) ==
    /\ ~MicrotasksPending
    /\ requests[r].pc = "parsing"
    /\ requests' = [requests EXCEPT ![r].pc = "then", ![r].data = Some(body)]
    /\ alertMsg' = ""
    /\ ChainFrame
    /\ UNCHANGED <<analyzeDisabled, busyVars, resultVars, animations, lastRender, lastSubmit>>

\* response.json() rejects (the body is not JSON).
JsonReject(r) ==
    /\ ~MicrotasksPending
    /\ requests[r].pc = "parsing"
    /\ requests' = [requests EXCEPT ![r].pc = "catch", ![r].outcome = "malformed"]
    /\ alertMsg' = ""
    /\ ChainFrame
    /\ UNCHANGED <<analyzeDisabled, busyVars, resultVars, animations, lastRender, lastSubmit>>

\* a || b of two optional strings, as the string concatenation shows it
Truthy(v) == v # Null /\ v[1] # ""
OrElse(a, b) ==
    IF Truthy(a) THEN a[1]
    ELSE IF b = Null THEN "undefined"
    ELSE b[1]

\* The alert of a response whose success is falsy.
RejectionAlert(body) ==
    "Error processing file: " \o OrElse(body.errors, body.error)

\* data.success of null throws a TypeError.
ThenThrows(r) ==
    /\ requests' = [requests EXCEPT ![r].pc = "catch", ![r].outcome = "exception",
                                    ![r].data = Null]
    /\ alertMsg' = ""
    /\ UNCHANGED <<resultDisplay, resultVars, animations>>

\* updateResults(data.score, data.features), which may throw; with ordered
\* set, a rendering is recorded in the requests issued before request r.
ThenSuccess(r, body, ordered) ==
    /\ Rendered(body.score, body.features)
    /\ requests' =
         IF updateResults(body.score, body.features).threw
         THEN [requests EXCEPT ![r].pc = "catch", ![r].outcome = "exception",
                                    ![r].data = Null]
         ELSE [i \in DOMAIN requests |->
                 IF i = r
                 THEN [requests[i] EXCEPT !.pc = "finally",
                                          !.outcome = "rendered",
                                          !.data = Null]
                 ELSE IF ordered /\ i < r
                      THEN [requests[i] EXCEPT !.overtaken = TRUE]
                      ELSE requests[i]]
    /\ alertMsg' = ""

\* The rejection branch clearing the feature rows of the result before.
ThenRejectedClears(r, body) ==
    /\ alertMsg' = RejectionAlert(body)
    /\ requests' = [requests EXCEPT ![r].pc = "finally",
                                    ![r].outcome = "rejected",
                                    ![r].data = Null,
                                    ![r].notified = TRUE]
    /\ featureRows' = <<>>
    /\ UNCHANGED <<resultDisplay, scoreValueText, scoreFillWidth,
                   interpretationText, animations>>

\* alert('Error processing file: ' + (data.errors || data.error))
ThenRejected(r, body) ==
    /\ alertMsg' = RejectionAlert(body)
    /\ requests' = [requests EXCEPT ![r].pc = "finally",
                                    ![r].outcome = "rejected",
                                    ![r].data = Null,
                                    ![r].notified = TRUE]
    /\ UNCHANGED <<resultDisplay, resultVars, animations>>

\* data => { if (data.success) ... else ... }
thenCallback(r, ordered) ==
    /\ requests[r].pc = "then"
    /\ LET body == requests[r].data[1] IN
       IF body.null THEN ThenThrows(r)
       ELSE IF body.success THEN ThenSuccess(r, body, ordered)
       ELSE ThenRejected(r, body)
    /\ ChainFrame
    /\ UNCHANGED <<analyzeDisabled, loadingDisplay, lastRender, lastSubmit>>

ThenCallback(r) == thenCallback(r, FALSE)

\* The catch callback logging to the console only.
CatchCallbackSilent(r) ==
    /\ requests[r].pc = "catch"
    /\ alertMsg' = ""
    /\ requests' = [requests EXCEPT ![r].pc = "finally"]
    /\ UNCHANGED <<currentFile, selectedFileText, dropZoneStyle>>
    /\ UNCHANGED <<analyzeDisabled, busyVars, resultVars, animations, lastRender, lastSubmit>>

\* error => { console.error(...); alert(...) }
CatchCallback(r) ==
    /\ requests[r].pc = "catch"
    /\ alertMsg' = "An error occurred while processing the file."
    /\ requests' = [requests EXCEPT ![r].pc = "finally", ![r].notified = TRUE]
    /\ ChainFrame
    /\ UNCHANGED <<analyzeDisabled, busyVars, resultVars, animations, lastRender, lastSubmit>>

\* requests without its r-th chain
Without(r) ==
    SubSeq(requests, 1, r - 1) \o SubSeq(requests, r + 1, Len(requests))

\* The cleanup hiding the loading indicator and leaving the button disabled.
FinallyCallbackKeepsDisabled(r) ==
    /\ requests[r].pc = "finally"
    /\ loadingDisplay' = "none"
    /\ requests' = Without(r)
    /\ alertMsg' = ""
    /\ UNCHANGED <<currentFile, selectedFileText, dropZoneStyle>>
    /\ UNCHANGED <<analyzeDisabled, resultDisplay, resultVars, animations,
                   lastRender, lastSubmit>>

\* () => { loading.style.display = 'none'; analyzeBtn.disabled = false }
\* The chain has run to its end.
FinallyCallback(r) ==
    /\ requests[r].pc = "finally"
    /\ loadingDisplay' = "none"
    /\ analyzeDisabled' = FALSE
    /\ requests' = Without(r)
    /\ alertMsg' = ""
    /\ ChainFrame
    /\ UNCHANGED <<resultDisplay, resultVars, animations, lastRender, lastSubmit>>

\* The setTimeout callback of updateResults: every bar is given the width
\* it has.  Callbacks of other calls may remain pending.
AnimateBars ==
    /\ ~MicrotasksPending
    /\ animations
    /\ animations' \in BOOLEAN
    /\ featureRows' = [i \in 1..Len(featureRows) |->
                         [featureRows[i] EXCEPT !.width = featureRows[i].width]]
    /\ alertMsg' = ""
    /\ UNCHANGED <<selectionVars, busyVars, dropZoneStyle, scoreValueText,
                   scoreFillWidth, interpretationText, requests, lastRender, lastSubmit>>

(***************************************************************************)
(* The page.                                                               *)
(***************************************************************************)
Next ==
    \/ BrowseClick
    \/ \E files \in FileLists : FileInputChange(files)
    \/ DragOver
    \/ DragLeave
    \/ \E files \in FileLists : Drop(files)
    \/ AnalyzeClick
    \/ \E r \in 1..Len(requests) : FetchResolve(r)
    \/ \E r \in 1..Len(requests) : FetchReject(r)
    \/ \E r \in 1..Len(requests), body \in ResponseBodies : JsonResolve(r, body)
    \/ \E r \in 1..Len(requests) : JsonReject(r)
    \/ \E r \in 1..Len(requests) : ThenCallback(r)
    \/ \E r \in 1..Len(requests) : CatchCallback(r)
    \/ \E r \in 1..Len(requests) : FinallyCallback(r)
    \/ AnimateBars

Spec == Init /\ [][Next]_vars

(***************************************************************************)
(* The Result Renderer on its own: updateResults called with every score   *)
(* of 0 .. MaxScore hundredths and every feature mapping, from whatever    *)
(* display the calls before it left.                                       *)
(***************************************************************************)
RenderFeatureMaps == FeatureMaps \cup { <<>> }

Render(s, f) ==
    /\ Rendered(Some(s), Some(f))
    /\ lastRender' = Some([score |-> s, features |-> f,
                           again |-> lastRender # Null
                                     /\ lastRender[1].score = s
                                     /\ lastRender[1].features = f])
    /\ alertMsg' = ""
    /\ UNCHANGED <<selectionVars, loadingDisplay, dropZoneStyle, requests,
                   lastSubmit>>

RenderNext ==
    \/ \E s \in 0..MaxScore, f \in RenderFeatureMaps : Render(s, f)
    \/ AnimateBars

RenderSpec == Init /\ [][RenderNext]_vars

(***************************************************************************)
(* The Submission Controller with its click listener run whatever          *)
(* analyzeBtn.disabled is, as a click event dispatched by a script runs    *)
(* it, with at most MaxSubmitOutstanding requests outstanding.             *)
(***************************************************************************)
Submit ==
    /\ ~MicrotasksPending
    /\ Len(requests) < MaxSubmitOutstanding
    /\ analyzeBtnClick
    /\ lastSubmit' = Some(currentFile)

SubmitNext ==
    \/ Submit
    \/ BrowseClick
    \/ \E files \in FileLists : FileInputChange(files)
    \/ DragOver
    \/ DragLeave
    \/ \E files \in FileLists : Drop(files)
    \/ \E r \in 1..Len(requests) : FetchResolve(r)
    \/ \E r \in 1..Len(requests) : FetchReject(r)
    \/ \E r \in 1..Len(requests), body \in ResponseBodies : JsonResolve(r, body)
    \/ \E r \in 1..Len(requests) : JsonReject(r)
    \/ \E r \in 1..Len(requests) : ThenCallback(r)
    \/ \E r \in 1..Len(requests) : CatchCallback(r)
    \/ \E r \in 1..Len(requests) : FinallyCallback(r)
    \/ AnimateBars

SubmitSpec == Init /\ [][SubmitNext]_vars

(***************************************************************************)
(* The page with the order of renderings recorded: a then callback that    *)
(* renders a response marks the requests issued before its own and still   *)
(* outstanding as overtaken.                                               *)
(***************************************************************************)
OrderedThenCallback(r) == thenCallback(r, TRUE)

OrderNext ==
    \/ BrowseClick
    \/ \E files \in FileLists : FileInputChange(files)
    \/ DragOver
    \/ DragLeave
    \/ \E files \in FileLists : Drop(files)
    \/ AnalyzeClick
    \/ \E r \in 1..Len(requests) : FetchResolve(r)
    \/ \E r \in 1..Len(requests) : FetchReject(r)
    \/ \E r \in 1..Len(requests), body \in ResponseBodies : JsonResolve(r, body)
    \/ \E r \in 1..Len(requests) : JsonReject(r)
    \/ \E r \in 1..Len(requests) : OrderedThenCallback(r)
    \/ \E r \in 1..Len(requests) : CatchCallback(r)
    \/ \E r \in 1..Len(requests) : FinallyCallback(r)
    \/ AnimateBars

OrderSpec == Init /\ [][OrderNext]_vars

(***************************************************************************)
(* Properties.                                                             *)
(***************************************************************************)
\* Position of a chain on its way to the end.
Rank(pc) ==
    CASE pc = "fetching" -> 0
      [] pc = "parsing" -> 1
      [] pc = "then" -> 2
      [] pc = "catch" -> 3
      [] pc = "finally" -> 4

\* C1: a submit trigger during a pending submission issues no second
\* request: in every reachable state at most one request is outstanding.
C1_AtMostOneOutstanding == Cardinality(Outstanding) <= 1

\* The reaction (then, catch or finally callback) of some chain runs.
Reaction ==
    \E r \in 1..Len(requests) :
        ThenCallback(r) \/ CatchCallback(r) \/ FinallyCallback(r)

\* Chain r has run its cleanup and is gone.
Ended(r) == Len(requests') < Len(requests) /\ requests' = Without(r)

\* C2: every exchange that settles, whatever its outcome, gets its cleanup
\* after the outcome has been handled: a chain with a queued reaction can
\* always run it and only moves towards its end, the chain that ends is one
\* whose outcome was rendered or notified, and in the state right after the
\* cleanup the loading indicator is hidden and the analyze button enabled.
C2_CleanupAfterOutcome ==
    /\ [](MicrotasksPending => ENABLED Reaction)
    /\ [][Len(requests') = Len(requests) =>
            \A r \in 1..Len(requests) :
                Rank(requests'[r].pc) >= Rank(requests[r].pc)]_vars
    /\ [][Len(requests') < Len(requests) =>
            /\ \E r \in 1..Len(requests) :
                  /\ Ended(r)
                  /\ requests[r].pc = "finally"
                  /\ requests[r].outcome = "rendered" \/ requests[r].notified
            /\ loadingDisplay' = "none"
            /\ analyzeDisabled' = FALSE]_vars

\* C2 witness: a response with the features missing made updateResults throw
\* half way (score written, rows cleared, region still hidden), and the
\* chain has since run its cleanup.
C2_Witness ==
    /\ requests = <<>>
    /\ scoreValueText = "0.60"
    /\ featureRows = <<>>
    /\ resultDisplay = "none"
    /\ loadingDisplay = "none"
    /\ ~analyzeDisabled

\* The outcomes of a submission that failed: the server rejected the file,
\* the fetch failed, the body was not JSON.
FailureOutcomes == {"rejected", "network", "malformed"}

\* m occurs in s
ContainsStr(s, m) ==
    \E i \in 1..(Len(s) - Len(m) + 1) : SubSeq(s, i, i + Len(m) - 1) = m

\* The alert shows the message the body carries: errors when it has a
\* non-empty one, else error when it has one.
ShowsMessageOf(alert, body) ==
    /\ body.errors # Null /\ body.errors # <<"">> => ContainsStr(alert, body.errors[1])
    /\ body.errors \in {Null, <<"">>} /\ body.error # Null =>
           ContainsStr(alert, body.error[1])

\* C3 (as stated): after a submission that failed has been handled, the
\* result display is as it was before the submission was triggered: a
\* result shown when the analyze button was clicked is shown again.
C3_FailureKeepsDisplay ==
    \A r \in 1..Len(requests) :
        /\ requests[r].pc = "finally"
        /\ requests[r].outcome \in FailureOutcomes
        /\ requests[r].shown
        => resultDisplay = "block"

\* C3 (amended): the click that triggers a submission hides the result
\* region and leaves its content, and no step of the handling of a failed
\* submission (its alert, its cleanup) changes the content or the visibility
\* of the result display; the alert of a server rejection contains the
\* message the server supplied.
C3_FailureHandlingKeepsResult ==
    /\ [][Len(requests') > Len(requests) =>
            resultDisplay' = "none" /\ UNCHANGED resultVars]_vars
    /\ [][(\E r \in 1..Len(requests) :
              \/ /\ Len(requests') = Len(requests)
                 /\ requests'[r] # requests[r]
                 /\ requests'[r].outcome \in FailureOutcomes
              \/ Ended(r) /\ requests[r].outcome \in FailureOutcomes)
          => UNCHANGED <<resultDisplay, resultVars>>]_vars
    /\ [][\A r \in 1..Len(requests) :
              /\ Len(requests') = Len(requests)
              /\ requests[r].pc = "then"
              /\ requests'[r].outcome = "rejected"
              => ShowsMessageOf(alertMsg', requests[r].data[1])]_vars

\* C3 witness: a result was shown, the next submission was rejected with
\* "bad file": the alert is up, the result is hidden with its content kept.
C3_Witness ==
    \E r \in 1..Len(requests) :
        /\ requests[r].pc = "finally"
        /\ requests[r].outcome = "rejected"
        /\ requests[r].shown
        /\ alertMsg = "Error processing file: bad file"
        /\ resultDisplay = "none"
        /\ scoreValueText = "0.29"
        /\ Len(featureRows) = 1

\* A selection event (picker or drop) carrying file f.
Selects(f) == FileInputChange(<<f>>) \/ Drop(<<f>>)

\* C4: selecting a file whose type does not start with "audio/" raises the
\* alert and leaves currentFile, the label and the button as they were.
C4_InvalidFileRejected ==
    [][\A f \in OtherFiles :
          Selects(f) =>
              /\ alertMsg' = "Please upload an audio file"
              /\ UNCHANGED <<currentFile, selectedFileText, analyzeDisabled>>]_vars

\* C4 witness: a file was rejected while another is held and its
\* submission is pending.
C4_Witness ==
    /\ alertMsg = "Please upload an audio file"
    /\ currentFile = Some([name |-> "a.mp3", type |-> "audio/mpeg"])
    /\ selectedFileText = "Selected file: a.mp3"
    /\ analyzeDisabled
    /\ Len(requests) = 1

\* C5: selecting a file whose type starts with "audio/" makes it the
\* current file, puts its name in the label, raises no alert and leaves
\* the analyze button enabled.
C5_AudioFileSelected ==
    [][\A f \in AudioFiles :
          Selects(f) =>
              /\ currentFile' = Some(f)
              /\ selectedFileText' = "Selected file: " \o f.name
              /\ ContainsStr(selectedFileText', f.name)
              /\ alertMsg' = ""
              /\ analyzeDisabled' = FALSE]_vars

\* C5 witness: b.wav has replaced a.mp3, which was submitted before.
C5_Witness ==
    /\ currentFile = Some([name |-> "b.wav", type |-> "audio/wav"])
    /\ selectedFileText = "Selected file: b.wav"
    /\ ~analyzeDisabled
    /\ alertMsg = ""
    /\ \E r \in 1..Len(requests) : requests[r].file.name = "a.mp3"

\* C6: a submission that does not end in a rendered result ends with an
\* alert and then the cleanup: a failed chain is sent to the catch callback
\* un-notified, a chain is notified by a step that raises an alert, at the
\* cleanup a chain is notified exactly if it did not render, a queued
\* reaction can always run, and the chain ends with the loading indicator
\* hidden.
C6_FailureNotifiedThenCleanup ==
    /\ [](\A r \in 1..Len(requests) :
            /\ requests[r].pc = "catch" =>
                  /\ requests[r].outcome \in {"network", "malformed", "exception"}
                  /\ ~requests[r].notified
            /\ requests[r].pc = "finally" =>
                  (requests[r].notified <=> requests[r].outcome # "rendered"))
    /\ [](MicrotasksPending => ENABLED Reaction)
    /\ [][\A r \in 1..Len(requests) :
              /\ Len(requests') = Len(requests)
              /\ ~requests[r].notified
              /\ requests'[r].notified
              => alertMsg' # "" /\ requests'[r].pc = "finally"]_vars
    /\ [][Len(requests') < Len(requests) =>
            /\ \E r \in 1..Len(requests) :
                  /\ Ended(r)
                  /\ requests[r].outcome # "rendered" => requests[r].notified
            /\ loadingDisplay' = "none"]_vars

\* C6 witness: updateResults threw, the catch callback has raised the
\* alert, the cleanup is queued.
C6_Witness ==
    \E r \in 1..Len(requests) :
        /\ requests[r].pc = "finally"
        /\ requests[r].outcome = "exception"
        /\ requests[r].notified
        /\ alertMsg = "An error occurred while processing the file."

\* C7: the label is "Low Stress" below 0.3, "Moderate Stress" from 0.3 to
\* below 0.6, "High Stress" from 0.6 on.
C7_Thresholds ==
    lastRender # Null =>
        LET s == lastRender[1].score IN
        /\ s < 30 => interpretationText = "Low Stress"
        /\ 30 <= s /\ s < 60 => interpretationText = "Moderate Stress"
        /\ 60 <= s => interpretationText = "High Stress"

\* C7 witness: the score 0.3 is labelled "Moderate Stress".
C7_Witness ==
    /\ lastRender # Null
    /\ lastRender[1].score = 30
    /\ scoreValueText = "0.30"
    /\ interpretationText = "Moderate Stress"

\* C8: the rows shown are those of the features of the last call, each
\* once and in order, and a call with the arguments of the call before it
\* leaves the display as it is.
C8_RenderIdempotent ==
    /\ [](lastRender # Null =>
            LET f == lastRender[1].features IN
            /\ Len(featureRows) = Len(f)
            /\ \A i \in 1..Len(f) :
                  /\ featureRows[i].name = DisplayNames[f[i][1]]
                  /\ featureRows[i].percent = ToFixed1Percent(f[i][2]))
    /\ [][/\ lastRender' # lastRender
          /\ lastRender'[1].again
          => UNCHANGED <<resultDisplay, resultVars>>]_vars

\* C8 witness: the same score and the same two features were rendered
\* twice in a row.
C8_Witness ==
    /\ lastRender # Null
    /\ lastRender[1].again
    /\ Len(featureRows) = 2
    /\ resultDisplay = "block"

\* C9: while a submission is in flight the analyze button is disabled and
\* the loading indicator is shown.
C9_BusyWhileInFlight ==
    InFlight # {} => analyzeDisabled /\ loadingDisplay = "block"

\* C10: the analyze button is enabled only when a file is held, and no step
\* enables it while none is held.
C10_EnabledOnlyWithFile ==
    /\ [](~analyzeDisabled => currentFile # Null)
    /\ [][analyzeDisabled /\ ~analyzeDisabled' => currentFile' # Null]_vars

\* C10 witness: the cleanup of a submission has enabled the button again.
C10_Witness ==
    /\ ~analyzeDisabled
    /\ currentFile # Null
    /\ requests = <<>>
    /\ loadingDisplay = "none"

\* C11: the result region is not visible while a request is in flight.
C11_HiddenWhileInFlight ==
    InFlight # {} => resultDisplay # "block"

\* The content of the result region is what one of the two successful
\* responses renders to, whole.
CompleteResult ==
    \/ /\ scoreValueText = "0.29"
       /\ scoreFillWidth = "29%"
       /\ interpretationText = "Low Stress"
       /\ featureRows =
            << [name |-> "Pitch Variance", percent |-> "40.0%", width |-> "40%"] >>
    \/ /\ scoreValueText = "0.75"
       /\ scoreFillWidth = "75%"
       /\ interpretationText = "High Stress"
       /\ featureRows =
            << [name |-> "Energy", percent |-> "25.5%", width |-> "25.5%"],
               [name |-> "Speech Rate", percent |-> "100.0%", width |-> "100%"] >>

\* C12: whenever the result region is visible, its content is the whole
\* rendering of one successful response.
C12_VisibleResultComplete ==
    resultDisplay = "block" => CompleteResult

\* C13: the click listener run while no file is held issues no request,
\* raises no alert, and leaves the loading indicator, the result region's
\* visibility and the button's disabled state as they were.
C13_SubmitWithoutFileNoOp ==
    [][(currentFile = Null /\ Submit) =>
          /\ UNCHANGED <<requests, loadingDisplay, resultDisplay, analyzeDisabled>>
          /\ alertMsg' = ""]_vars

C13_Witness ==
    /\ lastSubmit = Some(Null)
    /\ currentFile = Null
    /\ requests = <<>>
    /\ loadingDisplay = ""
    /\ analyzeDisabled

\* Values a selection event can leave in currentFile, in the selected-file
\* label and in the alert.
HeldValues == {Null} \cup {Some(f) : f \in Files}
LabelValues == {""} \cup {"Selected file: " \o f.name : f \in Files}
SelectionAlerts == {"", "Please upload an audio file"}

\* C14: whatever a drop of a file list leaves in currentFile, the label,
\* the button's disabled state and the alert, a picker change with the same
\* list leaves from the same state, and the other way round; with an empty
\* list neither changes any of them nor alerts.
C14_EntryPointsAgree ==
    [][\A files \in FileLists :
          /\ Drop(files) =>
                \E cf \in HeldValues : cf = currentFile' /\
                \E label \in LabelValues : label = selectedFileText' /\
                \E dis \in BOOLEAN : dis = analyzeDisabled' /\
                \E al \in SelectionAlerts : al = alertMsg' /\
                    ENABLED (/\ FileInputChange(files)
                             /\ currentFile' = cf
                             /\ selectedFileText' = label
                             /\ analyzeDisabled' = dis
                             /\ alertMsg' = al)
          /\ FileInputChange(files) =>
                \E cf \in HeldValues : cf = currentFile' /\
                \E label \in LabelValues : label = selectedFileText' /\
                \E dis \in BOOLEAN : dis = analyzeDisabled' /\
                \E al \in SelectionAlerts : al = alertMsg' /\
                    ENABLED (/\ Drop(files)
                             /\ currentFile' = cf
                             /\ selectedFileText' = label
                             /\ analyzeDisabled' = dis
                             /\ alertMsg' = al)
          /\ (files = <<>> /\ (Drop(files) \/ FileInputChange(files))) =>
                UNCHANGED selectionVars /\ alertMsg' = ""]_vars

\* A picker change has just refused a file while an audio file is held (the
\* drop zone is still highlighted, so the alert is not a drop's), and a drop
\* of each candidate is possible from here.
C14_Witness ==
    /\ alertMsg = "Please upload an audio file"
    /\ dropZoneStyle = StyleHighlight
    /\ currentFile # Null
    /\ \A f \in Files : ENABLED Drop(<<f>>) /\ ENABLED FileInputChange(<<f>>)

\* C15: a dragover or dragleave changes nothing but the drop zone's style:
\* currentFile, the label, the button, the loading indicator, the result
\* display and the outstanding requests stay as they were, and no alert is
\* raised.
C15_DragOnlyCosmetic ==
    [][(DragOver \/ DragLeave) =>
          /\ UNCHANGED <<selectionVars, busyVars, resultVars, animations, requests>>
          /\ alertMsg' = ""]_vars

\* The drop zone is highlighted by a dragover while a file is held, a
\* request is in flight and an earlier result's content is in the page.
C15_Witness ==
    /\ dropZoneStyle = StyleHighlight
    /\ currentFile # Null
    /\ InFlight # {}
    /\ scoreValueText # ""

\* C16: currentFile is absent or a file whose type starts with "audio/";
\* once a file is held, one is held ever after; and while a file is held
\* the selected-file label is "Selected file: " followed by its name.
C16_HeldSelection ==
    /\ [](currentFile # Null =>
            /\ currentFile[1] \in AudioFiles
            /\ selectedFileText = "Selected file: " \o currentFile[1].name)
    /\ [][currentFile # Null => currentFile' # Null]_vars

\* A file is held and the last step refused another one.
C16_Witness ==
    /\ currentFile # Null
    /\ alertMsg = "Please upload an audio file"

\* C17: the response of a request is not rendered over the rendered
\* response of a request issued after it.
C17_NoOverwriteByEarlier ==
    \A r \in Outstanding :
        requests[r].outcome = "rendered" => ~requests[r].overtaken

====
